---- MODULE Spec2Model ----
(***************************************************************************)
(* PSII transformer (src/transformer.py): check_continue, perform_process  *)
(* and __internal__.analyze, modelled over small frames.                   *)
(*                                                                         *)
(* A frame is a sequence of NumPix unsigned 8-bit pixels.  A file of the   *)
(* file list is a record [name, ending, isdir, data]: `ending` is the      *)
(* number NNNN of a path ending "NNNN.bin" (NoEnding for any other path),  *)
(* `data` the bytes of the file.  Floating-point ratios are kept exactly,  *)
(* as records [t, n, d]: t = "num" is the number n/d (d > 0), t = "nan" is *)
(* NaN and t = "inf" is an infinity of sign n.                             *)
(***************************************************************************)
EXTENDS Integers, Sequences, FiniteSets, TLC

\* ---- bounds of the model ----
MaxPix == 2
NumPix == 2

\* ---- program constants ----
ByteMod == 256
FrameStop == 101
EndingStop == 102
NumBins == 20
DefaultWidth == 1936
DefaultHeight == 1216
ErrorCode == -1000
CheckFailCode == -1

NoEnding == 0 - 1

\* ---- exact arithmetic on ratio values ----
Num(n, d) == [t |-> "num", n |-> n, d |-> d]
NaN == [t |-> "nan", n |-> 0, d |-> 1]
Inf(s) == [t |-> "inf", n |-> s, d |-> 1]
Zero == Num(0, 1)

Less(x, y) == x.n * y.d < y.n * x.d
Eq(x, y) == x.n * y.d = y.n * x.d

Range(s) == {s[i] : i \in DOMAIN s}

RECURSIVE SeqSum(_)
SeqSum(s) == IF s = <<>> THEN 0 ELSE Head(s) + SeqSum(Tail(s))

\* ---- numpy operations used by analyze ----

\* np.max of an array
np_max(a) == CHOOSE m \in Range(a) : \A v \in Range(a) : v <= m

\* Image.open + np.array(...).astype('uint8')
load_image_file(data) == [i \in DOMAIN data |-> data[i] % ByteMod]

\* A subtraction that keeps the sign (what a signed dtype would give).
np_subtract_signed(a, b) == [i \in DOMAIN a |-> a[i] - b[i]]

\* np.subtract of two uint8 arrays: the result is uint8, it wraps
np_subtract(a, b) == [i \in DOMAIN a |-> (a[i] - b[i]) % ByteMod]

\* one element of np.divide(x.astype('float'), y.astype('float'))
float_div(x, y) ==
    IF y = 0
    THEN IF x = 0 THEN NaN ELSE Inf(IF x > 0 THEN 1 ELSE -1)
    ELSE Num(x, y)

np_divide(a, b) == [i \in DOMAIN a |-> float_div(a[i], b[i])]

isnan(x) == x.t = "nan"
isinf(x) == x.t = "inf"
\* x > 1.0 (false of NaN, true of +inf only)
gt_one(x) == \/ x.t = "inf" /\ x.n > 0
             \/ x.t = "num" /\ x.n > x.d

\* The sanitization with the infinity step left out.
sanitize_no_inf(fvfm) ==
    LET s1 == [i \in DOMAIN fvfm |-> IF isnan(fvfm[i]) THEN Zero ELSE fvfm[i]]
    IN  [i \in DOMAIN s1 |-> IF s1[i].t = "num" /\ s1[i].n > s1[i].d THEN Zero ELSE s1[i]]

\* fvfm[np.where(np.isnan(fvfm))] = 0; ...isinf... = 0; ...fvfm > 1.0... = 0
sanitize(fvfm) ==
    LET s1 == [i \in DOMAIN fvfm |-> IF isnan(fvfm[i]) THEN Zero ELSE fvfm[i]]
        s2 == [i \in DOMAIN s1 |-> IF isinf(s1[i]) THEN Zero ELSE s1[i]]
    IN  [i \in DOMAIN s2 |-> IF gt_one(s2[i]) THEN Zero ELSE s2[i]]

\* ---- np.histogram(fvfm, bins=20) ----
arr_min(a) == CHOOSE m \in Range(a) : \A v \in Range(a) : ~Less(v, m)
arr_max(a) == CHOOSE m \in Range(a) : \A v \in Range(a) : ~Less(m, v)

\* the outer edges: the data's range, widened by 0.5 each side when it is empty
first_edge(a) ==
    LET mn == arr_min(a) IN
    IF Eq(mn, arr_max(a)) THEN Num(2 * mn.n - mn.d, 2 * mn.d) ELSE mn
last_edge(a) ==
    LET mx == arr_max(a) IN
    IF Eq(arr_min(a), mx) THEN Num(2 * mx.n + mx.d, 2 * mx.d) ELSE mx

\* the 21 edges, evenly spaced (np.linspace)
hist_bins(a) ==
    LET lo == first_edge(a)
        hi == last_edge(a)
    IN  [j \in 1..(NumBins + 1) |->
            Num(NumBins * lo.n * hi.d + (j - 1) * (hi.n * lo.d - lo.n * hi.d),
                NumBins * lo.d * hi.d)]

\* A bin index with no special case for the last edge.
bin_index_open(a, x) ==
    LET lo == first_edge(a)
        hi == last_edge(a)
    IN  ((x.n * lo.d - lo.n * x.d) * hi.d * NumBins)
            \div (x.d * (hi.n * lo.d - lo.n * hi.d))

\* the (0-based) bin of x: bins are half-open, the last one is closed
bin_index(a, x) ==
    LET lo == first_edge(a)
        hi == last_edge(a)
    IN  IF Eq(x, hi)
        THEN NumBins - 1
        ELSE ((x.n * lo.d - lo.n * x.d) * hi.d * NumBins)
                \div (x.d * (hi.n * lo.d - lo.n * hi.d))

hist_counts(a) ==
    [b \in 1..NumBins |-> Cardinality({i \in DOMAIN a : bin_index(a, a[i]) = b - 1})]

\* ---- __internal__.analyze ----

\* the frame-level maxima: the dark frame, then frames 2..100
fave_list(frames) ==
    [j \in 1..(FrameStop - 1) |->
        IF j = 1 THEN np_max(load_image_file(frames[0]))
                 ELSE np_max(load_image_file(frames[j]))]

\* np.where(fave == np.max(fave))[0][0]: the first 0-based position of the maximum
first_max_pos(fave) ==
    LET m == np_max(fave) IN
    (CHOOSE j \in DOMAIN fave :
        /\ fave[j] = m
        /\ \A j2 \in 1..(j - 1) : fave[j2] # m) - 1

\* the frames analyze reads before anything else: a missing one is a KeyError
frames_needed == 0..(FrameStop - 1)

\* np.divide raises only when numpy's error state says so and a divisor is zero
divide_raises(fmax, np_err_raise) ==
    np_err_raise /\ \E i \in DOMAIN fmax : fmax[i] = 0

NoAnalysis ==
    [exc |-> "not run", sel |-> NoEnding, fmin |-> <<>>, fmax |-> <<>>, fvar |-> <<>>,
     fell_back |-> FALSE, raw |-> <<>>, fvfm |-> <<>>, hist |-> <<>>, bins |-> <<>>]

analyze(frames, np_err_raise) ==
    IF ~(frames_needed \subseteq DOMAIN frames)
    THEN [NoAnalysis EXCEPT !.exc = "KeyError"]
    ELSE
      LET fmin == load_image_file(frames[1])
          sel  == first_max_pos(fave_list(frames))
          fmax == load_image_file(frames[sel])
          fvar == np_subtract(fmax, fmin)
      IN  IF divide_raises(fmax, np_err_raise)
          THEN \* fvfm = 0 is a plain int: fvfm[...] = 0 raises TypeError
               [NoAnalysis EXCEPT !.exc = "TypeError", !.sel = sel, !.fmin = fmin,
                                  !.fmax = fmax, !.fvar = fvar, !.fell_back = TRUE]
          ELSE
            LET raw  == np_divide(fvar, fmax)
                fvfm == sanitize(raw)
            IN  [exc |-> "none", sel |-> sel, fmin |-> fmin, fmax |-> fmax,
                 fvar |-> fvar, fell_back |-> FALSE, raw |-> raw, fvfm |-> fvfm,
                 hist |-> hist_counts(fvfm), bins |-> hist_bins(fvfm)]

\* ---- __internal__.get_file_list, find_terra_md, get_image_dimensions ----

\* one entry: os.listdir of it (an error unless it is a folder); else the list itself
get_file_list(files_or_folder, listing) ==
    IF Len(files_or_folder) = 1
    THEN IF files_or_folder[1].isdir
         THEN [exc |-> "none", list |-> listing]
         ELSE [exc |-> "NotADirectoryError", list |-> <<>>]
    ELSE [exc |-> "none", list |-> files_or_folder]

NoMd == [terra |-> FALSE, sfm |-> FALSE, res |-> FALSE, width |-> 0, height |-> 0,
         bbox |-> FALSE, none |-> TRUE]

\* the first metadata holding 'terraref_cleaned_metadata', or None
find_terra_md(md_list) ==
    IF \E k \in DOMAIN md_list : md_list[k].terra
    THEN md_list[CHOOSE k \in DOMAIN md_list :
                    /\ md_list[k].terra
                    /\ \A k2 \in DOMAIN md_list : k2 < k => ~md_list[k2].terra]
    ELSE NoMd

\* (width, height): from 'camera_resolution' (a KeyError when absent), or the default
get_image_dimensions(metadata) ==
    IF metadata.sfm
    THEN IF metadata.res
         THEN [exc |-> "none", width |-> metadata.width, height |-> metadata.height]
         ELSE [exc |-> "KeyError", width |-> 0, height |-> 0]
    ELSE [exc |-> "none", width |-> DefaultWidth, height |-> DefaultHeight]

\* ---- check_continue ----

\* ["{0:0>4}.bin".format(i) for i in range(0, 101)]
file_endings_101 == 0..(FrameStop - 1)

\* ["{0:0>4}.bin".format(i) for i in range(0, 102)]
file_endings == 0..(EndingStop - 1)

\* one_file[-8:] of every entry that is not a folder
source_endings(list) == {list[k].ending : k \in {k2 \in DOMAIN list : ~list[k2].isdir}}

NoReturn == [kind |-> "none", code |-> 0, msg |-> ""]

check_continue_result(files_or_folder, listing) ==
    LET fl == get_file_list(files_or_folder, listing) IN
    IF fl.exc # "none"
    THEN [kind |-> "raised", code |-> 0, msg |-> fl.exc]
    ELSE IF file_endings \ source_endings(fl.list) # {}
         THEN [kind |-> "return", code |-> CheckFailCode,
               msg |-> "Not all the necessary sensor files were found"]
         ELSE [kind |-> "return", code |-> 0, msg |-> ""]

\* ---- perform_process ----

\* generate_file_md: the artifact entry of a path (its key is TRANSFORMER_SENSOR)
generate_file_md(kind, src) == [path |-> [kind |-> kind, src |-> src], key |-> "flirIrCamera"]

hist_md == generate_file_md("combined_hist.png", NoEnding)
false_color_md == generate_file_md("combined_pseudocolored.png", NoEnding)

\* An except clause that passes on the entries gathered so far.
error_result_keeps_files(ex) ==
    [kind |-> "return", code |-> ErrorCode, error |-> ex, has_file |-> TRUE,
     file |-> <<>>, num_files_received |-> 0, files_processed |-> 0, has_summary |-> FALSE]

\* the except clause: 'code' and 'error' only
error_result(ex) ==
    [kind |-> "return", code |-> ErrorCode, error |-> ex, has_file |-> FALSE,
     file |-> <<>>, num_files_received |-> 0, files_processed |-> 0, has_summary |-> FALSE]

NoResult ==
    [kind |-> "none", code |-> 0, error |-> "", has_file |-> FALSE, file |-> <<>>,
     num_files_received |-> 0, files_processed |-> 0, has_summary |-> FALSE]

raised_result(ex) == [NoResult EXCEPT !.kind = "raised", !.error = ex]

LoopStart ==
    [exc |-> "none", file_md |-> <<>>, png_frames |-> <<>>, files_processed |-> 0,
     read |-> {}, handled |-> 0]

\* np.fromfile(...).reshape([height, width]) succeeds when the sizes agree
reshape_ok(data, width, height) == Len(data) = height * width

\* A loop body that lets the ValueError of reshape end the loop.
loop_body_abort(st, one_file, width, height) ==
    IF one_file.ending \in file_endings
    THEN IF one_file.isdir
         THEN [st EXCEPT !.exc = "IsADirectoryError",
                         !.files_processed = @ + 1, !.handled = @ + 1]
         ELSE IF ~reshape_ok(one_file.data, width, height)
              THEN [st EXCEPT !.exc = "ValueError", !.files_processed = @ + 1,
                              !.read = @ \cup {one_file.ending}, !.handled = @ + 1]
              ELSE [st EXCEPT
                      !.files_processed = @ + 1,
                      !.read = @ \cup {one_file.ending},
                      !.file_md = @ \o << generate_file_md("png", one_file.name),
                                          generate_file_md("tif", one_file.name) >>,
                      !.png_frames = (one_file.ending :> one_file.data) @@ @,
                      !.handled = @ + 1]
    ELSE [st EXCEPT !.handled = @ + 1]

\* the body of `for one_file in file_list`
loop_body(st, one_file, width, height) ==
    IF one_file.ending \in file_endings
    THEN IF one_file.isdir
         THEN \* np.fromfile of a folder: an OSError, not caught by the inner try
              [st EXCEPT !.exc = "IsADirectoryError",
                         !.files_processed = @ + 1, !.handled = @ + 1]
         ELSE IF ~reshape_ok(one_file.data, width, height)
              THEN \* ValueError: logged, `continue`
                   [st EXCEPT !.files_processed = @ + 1,
                              !.read = @ \cup {one_file.ending}, !.handled = @ + 1]
              ELSE [st EXCEPT
                      !.files_processed = @ + 1,
                      !.read = @ \cup {one_file.ending},
                      !.file_md = @ \o << generate_file_md("png", one_file.name),
                                          generate_file_md("tif", one_file.name) >>,
                      !.png_frames = (one_file.ending :> one_file.data) @@ @,
                      !.handled = @ + 1]
    ELSE \* "Skipping non-sensor file"
         [st EXCEPT !.handled = @ + 1]

RECURSIVE file_loop(_, _, _, _, _)
file_loop(st, list, k, width, height) ==
    IF k > Len(list) \/ st.exc # "none"
    THEN st
    ELSE file_loop(loop_body(st, list[k], width, height), list, k + 1, width, height)

\* The `files_processed > 0` test of the aggregates left out: analyze always runs.
run_aggregates_always(files_processed) == TRUE

\* if files_processed > 0: analyze(...)
run_aggregates(files_processed) == files_processed > 0

\* The whole call: [result, loop (the locals when it ended), an (what analyze did)]
perform(files_or_folder, listing, md_list, np_err_raise) ==
    LET fl == get_file_list(files_or_folder, listing)
        terra_md == find_terra_md(md_list)
        none == [loop |-> LoopStart, an |-> NoAnalysis]
    IN
    IF fl.exc # "none"
    THEN [result |-> raised_result(fl.exc)] @@ none
    ELSE IF terra_md.none
    THEN [result |-> raised_result("RuntimeError")] @@ none
    ELSE
      LET dims == get_image_dimensions(terra_md) IN
      IF dims.exc # "none"
      THEN [result |-> error_result(dims.exc)] @@ none
      ELSE IF ~terra_md.bbox
      THEN [result |-> error_result("KeyError")] @@ none
      ELSE
        LET loop == file_loop(LoopStart, fl.list, 1, dims.width, dims.height) IN
        IF loop.exc # "none"
        THEN [result |-> error_result(loop.exc), loop |-> loop, an |-> NoAnalysis]
        ELSE IF run_aggregates(loop.files_processed)
        THEN LET an == analyze(loop.png_frames, np_err_raise) IN
             IF an.exc # "none"
             THEN [result |-> error_result(an.exc), loop |-> loop, an |-> an]
             ELSE [result |->
                     [kind |-> "return", code |-> 0, error |-> "", has_file |-> TRUE,
                      file |-> loop.file_md \o <<hist_md, false_color_md>>,
                      num_files_received |-> Len(fl.list),
                      files_processed |-> loop.files_processed, has_summary |-> TRUE],
                   loop |-> loop, an |-> an]
        ELSE [result |->
                [kind |-> "return", code |-> 0, error |-> "", has_file |-> TRUE,
                 file |-> loop.file_md,
                 num_files_received |-> Len(fl.list),
                 files_processed |-> loop.files_processed, has_summary |-> TRUE],
              loop |-> loop, an |-> NoAnalysis]

\* ---- the state ----
VARIABLES
    list_files,       \* what check_md['list_files']() returns
    folder_listing,   \* os.listdir of its only entry, when that is a folder
    full_md,          \* the list of metadata
    np_err_raise,     \* numpy's error state turns a zero divisor into an exception
    check_ret,        \* what check_continue returned
    result,           \* what perform_process returned
    file_md,          \* perform_process: the artifact entries
    png_frames,       \* perform_process: frame index -> the PNG written for it
    files_processed,  \* perform_process: the counter
    read_files,       \* the endings np.fromfile has read as pixels
    analysis          \* what analyze computed

vars == <<list_files, folder_listing, full_md, np_err_raise, check_ret, result,
          file_md, png_frames, files_processed, read_files, analysis>>

inputs == <<list_files, folder_listing, full_md, np_err_raise>>

\* ---- the requests explored ----
Contents == [1..NumPix -> 0..MaxPix]
Flat(v) == [i \in 1..NumPix |-> v]
\* a frame with a zero pixel and a pixel of value v
Mixed(v) == [i \in 1..NumPix |-> IF i = 1 THEN 0 ELSE v]

SensorFile(i, data) == [name |-> i, ending |-> i, isdir |-> FALSE, data |-> data]
OtherFile(n) == [name |-> n, ending |-> NoEnding, isdir |-> FALSE, data |-> <<>>]
Folder(n, e) == [name |-> n, ending |-> e, isdir |-> TRUE, data |-> <<>>]

\* the 102 files of a capture, in index order
Capture(dark, fmin, s, spec, rest, xml) ==
    [k \in 1..EndingStop |->
        SensorFile(k - 1,
            IF k - 1 = 0 THEN dark
            ELSE IF k - 1 = 1 THEN fmin
            ELSE IF k - 1 = EndingStop - 1 THEN xml
            ELSE IF k - 1 = s THEN spec
            ELSE rest)]

Reverse(l) == [k \in 1..Len(l) |-> l[Len(l) + 1 - k]]
Without(l, m) == SelectSeq(l, LAMBDA f : f.ending # m)
Truncated(l, b) == [k \in 1..Len(l) |-> IF l[k].ending = b THEN [l[k] EXCEPT !.data = <<>>] ELSE l[k]]
InsertAt(l, pos, f) ==
    IF Len(l) < pos THEN l \o <<f>>
    ELSE SubSeq(l, 1, pos) \o <<f>> \o SubSeq(l, pos + 1, Len(l))

SampleIdx == {0, 1, 2, 47, FrameStop - 1, EndingStop - 1}

TerraMd == [terra |-> TRUE, sfm |-> TRUE, res |-> TRUE, width |-> NumPix, height |-> 1,
            bbox |-> TRUE, none |-> FALSE]
OtherMd == [TerraMd EXCEPT !.terra = FALSE]

MdChoices ==
    { <<>>, <<OtherMd>>, <<OtherMd, TerraMd>>,
      << [TerraMd EXCEPT !.res = FALSE] >>,
      << [TerraMd EXCEPT !.bbox = FALSE] >>,
      << [TerraMd EXCEPT !.sfm = FALSE] >> }

Request(lf, listing, md, raise) ==
    [list_files |-> lf, folder_listing |-> listing, full_md |-> md, np_err_raise |-> raise]

\* a list given as such, or as the one folder that holds it
Given(l, via) == IF via THEN <<Folder(300, NoEnding)>> ELSE l
Listing(l, via) == IF via THEN l ELSE <<>>

\* captures with a file missing, a file of the wrong size, a stray entry
ListRequests ==
    { Request(Given(l, via), Listing(l, via), <<TerraMd>>, raise) :
        l \in { IF extra = "none" THEN base
                ELSE InsertAt(base, 2,
                        IF extra = "file" THEN OtherFile(200)
                        ELSE IF extra = "folder" THEN Folder(201, NoEnding)
                        ELSE Folder(202, 5)) :
                  extra \in {"none", "file", "folder", "binfolder"},
                  base \in { IF rev THEN Reverse(c) ELSE c :
                               rev \in BOOLEAN,
                               c \in { Truncated(Without(
                                          Capture(dark, Flat(1), 2, Flat(1), Flat(1), xml), m), b) :
                                        m \in SampleIdx \cup {NoEnding},
                                        b \in SampleIdx \cup {NoEnding},
                                        xml \in {Flat(0), <<>>},
                                        dark \in {Mixed(MaxPix)} } } },
        via \in BOOLEAN,
        raise \in {FALSE} }

\* short lists
ShortRequests ==
    { Request(lf, listing, <<TerraMd>>, FALSE) :
        lf \in { <<>>, <<SensorFile(0, Flat(1))>>, <<OtherFile(200), OtherFile(203)>>,
                 <<SensorFile(0, Flat(1)), SensorFile(1, Flat(1))>>,
                 <<Folder(300, NoEnding)>> },
        listing \in { <<>>, <<SensorFile(0, Flat(1))>>, <<OtherFile(200)>> } }

\* complete captures: every dark frame against every F-min frame
ContentRequests ==
    { Request(Capture(dark, fmin, 2, Flat(0), Flat(0), <<>>), <<>>, <<TerraMd>>, FALSE) :
        dark \in Contents, fmin \in Contents }

\* complete captures whose brightest frame is a candidate frame
CandidateRequests ==
    { Request(Capture(dark, fmin, s, spec, rest, <<>>), <<>>, <<TerraMd>>, raise) :
        dark \in {Flat(0), Flat(MaxPix)},
        fmin \in {Flat(1), Mixed(1)},
        s \in {2, 3, FrameStop - 1},
        spec \in {Flat(MaxPix), Mixed(MaxPix)},
        rest \in {Flat(0), Flat(1), Flat(MaxPix)},
        raise \in BOOLEAN }

\* complete captures under every metadata
MdRequests ==
    { Request(Capture(Flat(1), Flat(1), 2, Flat(MaxPix), Flat(0), xml), <<>>, md, FALSE) :
        md \in MdChoices, xml \in {Flat(0), <<>>} }

Requests ==
    ListRequests \cup ShortRequests \cup ContentRequests \cup CandidateRequests \cup MdRequests

\* ---- the state machine ----
Init ==
    /\ \E r \in Requests :
        /\ list_files = r.list_files
        /\ folder_listing = r.folder_listing
        /\ full_md = r.full_md
        /\ np_err_raise = r.np_err_raise
    /\ check_ret = NoReturn
    /\ result = NoResult
    /\ file_md = <<>>
    /\ png_frames = <<>>
    /\ files_processed = 0
    /\ read_files = {}
    /\ analysis = NoAnalysis

CheckContinue ==
    /\ check_ret.kind = "none"
    /\ check_ret' = check_continue_result(list_files, folder_listing)
    /\ UNCHANGED <<inputs, result, file_md, png_frames, files_processed, read_files, analysis>>

PerformProcess ==
    /\ result.kind = "none"
    /\ \E p \in {perform(list_files, folder_listing, full_md, np_err_raise)} :
        /\ result' = p.result
        /\ file_md' = p.loop.file_md
        /\ png_frames' = p.loop.png_frames
        /\ files_processed' = p.loop.files_processed
        /\ read_files' = p.loop.read
        /\ analysis' = p.an
    /\ UNCHANGED <<inputs, check_ret>>

Next == CheckContinue \/ PerformProcess

Spec == Init /\ [][Next]_vars

\* ======================= the claims =======================

\* ---- what a request holds, read off the inputs ----
HasFileList == get_file_list(list_files, folder_listing).exc = "none"
FileList == get_file_list(list_files, folder_listing).list
HasTerraMd == \E k \in DOMAIN full_md : full_md[k].terra
TerraMdOf == find_terra_md(full_md)
MdFieldsPresent == HasTerraMd /\ (TerraMdOf.sfm => TerraMdOf.res) /\ TerraMdOf.bbox
ImgSize == IF TerraMdOf.sfm THEN TerraMdOf.width * TerraMdOf.height ELSE 1936 * 1216

\* the request gets as far as the loop over the files
ReachesLoop == HasFileList /\ MdFieldsPresent

IsSensor(f) == f.ending \in 0..101
Decodes(f) == IsSensor(f) /\ ~f.isdir /\ Len(f.data) = ImgSize
SensorEntries == {k \in DOMAIN FileList : IsSensor(FileList[k])}
SensorFolderIn == \E k \in DOMAIN FileList : IsSensor(FileList[k]) /\ FileList[k].isdir
\* the frame indices some file of the list decodes for
DecodedFrames ==
    LET fl == FileList IN {fl[k].ending : k \in {k2 \in DOMAIN fl : Decodes(fl[k2])}}
SomeFrameMissing == ~((0..100) \subseteq DecodedFrames)
\* the endings of the entries that are not folders
PresentEndings ==
    LET fl == FileList IN {fl[k].ending : k \in {k2 \in DOMAIN fl : ~fl[k2].isdir}}

Returned == result.kind = "return"
Analyzed == analysis.exc = "none"
NoAggregate ==
    /\ ~Analyzed
    /\ \A k \in DOMAIN result.file : result.file[k].path.kind \in {"png", "tif"}

\* ---- C1 ----
FrameTop(i) == np_max(load_image_file(png_frames[i]))
Candidates == {0} \cup 2..100
OverallTop == CHOOSE m \in {FrameTop(i) : i \in Candidates} :
                 \A i \in Candidates : FrameTop(i) <= m

\* C1: for a complete frame set, the frame used as fmax is frames[k], k the smallest
\* index among {0, 2, 3, ..., 100} whose frame-level maximum equals the overall
\* maximum over the dark frame and the candidate frames 2..100.
C1_FmaxIsFirstBrightest ==
    analysis.sel # NoEnding =>
        /\ analysis.sel \in Candidates
        /\ FrameTop(analysis.sel) = OverallTop
        /\ \A i \in Candidates : i < analysis.sel => FrameTop(i) # OverallTop
        /\ analysis.fmax = load_image_file(png_frames[analysis.sel])

\* ---- C2 ----
\* C2: the sanitized ratio map holds no NaN, no infinity and no value above 1.0:
\* every element is a finite number that is at most 1.
C2_RatioMapSanitized ==
    Analyzed =>
        \A i \in DOMAIN analysis.fvfm :
            /\ analysis.fvfm[i].t = "num"
            /\ analysis.fvfm[i].d > 0
            /\ analysis.fvfm[i].n <= analysis.fvfm[i].d

\* an analysis whose raw ratios held both a NaN (0/0) and an infinity (x/0)
C2_Witness ==
    /\ Analyzed
    /\ \E i \in DOMAIN analysis.raw : isnan(analysis.raw[i])
    /\ \E i \in DOMAIN analysis.raw : isinf(analysis.raw[i])

\* ---- C3 ----
Underflows(i) == analysis.fmax[i] < analysis.fmin[i] /\ analysis.fmax[i] # 0

\* C3 as stated: where fmax is below fmin (and not zero), fvar is negative, the ratio
\* is negative and sanitization leaves that negative ratio as it is.
C3_NegativeRatioKept ==
    Analyzed =>
        \A i \in DOMAIN analysis.fvar :
            Underflows(i) =>
                /\ analysis.fvar[i] < 0
                /\ analysis.raw[i].n < 0
                /\ analysis.fvfm[i] = analysis.raw[i]

\* C3 as amended: fvar is the uint8 difference, fmax - fmin modulo 256; where fmax is
\* below fmin (and not zero) fvar is fmax - fmin + 256, the ratio is above 1 and
\* sanitization sets it to 0: no negative ratio is produced.
C3_WrappedDifferenceZeroed ==
    Analyzed =>
        \A i \in DOMAIN analysis.fvar :
            /\ analysis.fvar[i] \in 0..255
            /\ analysis.fvfm[i].n >= 0
            /\ Underflows(i) =>
                /\ analysis.fvar[i] = analysis.fmax[i] - analysis.fmin[i] + 256
                /\ gt_one(analysis.raw[i])
                /\ analysis.fvfm[i] = Zero

C3_Witness == Analyzed /\ \E i \in DOMAIN analysis.fvar : Underflows(i)

\* ---- C4 ----
CheckFailed ==
    /\ check_ret.code = -1
    /\ check_ret.msg = "Not all the necessary sensor files were found"

\* C4 as stated: check_continue returns -1 with its message exactly when one of the
\* 101 endings 0000.bin..0100.bin is absent from the non-folder entries, and 0
\* whenever 0..100 are all present.
C4_AbortsIffFrameAbsent ==
    check_ret.kind = "return" =>
        /\ CheckFailed <=> ~((0..100) \subseteq PresentEndings)
        /\ ((0..100) \subseteq PresentEndings) => check_ret.code = 0

\* C4 as amended: the same of the 102 endings 0000.bin..0101.bin: the timing file
\* 0101.bin is required too.
C4_AbortsIffEndingAbsent ==
    (check_ret.kind # "none" /\ HasFileList) =>
        /\ check_ret.kind = "return"
        /\ CheckFailed <=> ~((0..101) \subseteq PresentEndings)
        /\ ((0..101) \subseteq PresentEndings) => (check_ret.code = 0 /\ check_ret.msg = "")

\* check_continue refused a list that holds every frame 0..100 but not 0101.bin
C4_Witness ==
    /\ check_ret.kind = "return"
    /\ CheckFailed
    /\ (0..100) \subseteq PresentEndings
    /\ 101 \notin PresentEndings

\* ---- C5 ----
\* C5 as stated: whenever a frame index in 0..100 is missing or failed to decode,
\* perform_process returns a negative status code and reports no aggregate; also
\* when no sensor file is present at all.
C5_MissingFrameFails ==
    (result.kind # "none" /\ ReachesLoop /\ SomeFrameMissing) =>
        /\ Returned
        /\ result.code < 0
        /\ NoAggregate

\* C5 as amended: so it is when at least one entry of the file list has a sensor
\* ending 0000.bin..0101.bin (status -1000, no file list); with no such entry
\* perform_process returns status 0 with an empty file list, and still no aggregate.
C5_MissingFrameFailsUnlessNoSensorFile ==
    (result.kind # "none" /\ ReachesLoop /\ SomeFrameMissing) =>
        /\ Returned
        /\ NoAggregate
        /\ IF SensorEntries # {}
           THEN result.code = -1000 /\ result.error # "" /\ ~result.has_file
           ELSE result.code = 0 /\ result.has_file /\ result.file = <<>>

\* a capture without frame 47 ended in failure
C5_Witness ==
    /\ Returned
    /\ ReachesLoop
    /\ (0..100) \ DecodedFrames = {47}
    /\ result.code = -1000

\* ---- C6 ----
\* C6 as stated: every failing run returns a descriptor with a negative status code,
\* an error message and no 'file' list; no failure escapes as an exception (read
\* of the runs that have a file list to work on).
C6_FailureIsDescriptor ==
    (result.kind # "none" /\ HasFileList) =>
        /\ Returned
        /\ result.code # 0 => (result.code < 0 /\ result.error # "" /\ ~result.has_file)

\* the failures that happen inside the try block
FailsInTry ==
    \/ ~MdFieldsPresent
    \/ SensorFolderIn
    \/ SensorEntries # {} /\ SomeFrameMissing

\* C6 as amended: a failure inside the try block (an absent metadata field, a failure
\* while converting a file, a failure inside analyze) returns a descriptor with
\* status -1000, an error message and no 'file' list; missing TERRA REF metadata (and
\* a file list that cannot be listed) is raised before the try block and escapes.
C6_FailureInTryIsDescriptor ==
    result.kind # "none" =>
        /\ result.kind = "raised" <=> (~HasFileList \/ ~HasTerraMd)
        /\ (Returned /\ result.code # 0) =>
              /\ result.code = -1000
              /\ result.error # ""
              /\ ~result.has_file
              /\ result.file = <<>>
        /\ (HasFileList /\ HasTerraMd /\ FailsInTry) => (Returned /\ result.code = -1000)

\* a run that failed on an absent metadata field
C6_Witness == Returned /\ result.code = -1000 /\ HasTerraMd /\ ~MdFieldsPresent

\* ---- C7 ----
\* C7: the index-101 source (0101.bin, the timing metadata) is never read as pixels,
\* never converted to a PNG or GeoTIFF and never registered as a frame.
C7_TimingFileNeverLoaded ==
    /\ 101 \notin read_files
    /\ 101 \notin DOMAIN png_frames
    /\ \A k \in DOMAIN file_md : file_md[k].path.src # 101

\* ---- C8 ----
DataMin == arr_min(analysis.fvfm)
DataMax == arr_max(analysis.fvfm)
HistogramShape ==
    /\ Len(analysis.hist) = 20
    /\ Len(analysis.bins) = 21
    /\ \A j \in 1..20 : Less(analysis.bins[j], analysis.bins[j + 1])
    /\ SeqSum(analysis.hist) = Len(analysis.fvfm)

\* C8 as stated: 20 bin counts, 21 strictly increasing edges from the data's minimum
\* to its maximum, and the counts sum to the number of pixels; also when all pixels
\* have the same value.
C8_HistogramSpansData ==
    Analyzed =>
        /\ HistogramShape
        /\ Eq(analysis.bins[1], DataMin)
        /\ Eq(analysis.bins[21], DataMax)

\* C8 as amended: the edges run from the data's minimum to its maximum when these
\* differ, and from the value - 0.5 to the value + 0.5 when all pixels are equal.
C8_HistogramSpansDataOrUnit ==
    Analyzed =>
        /\ HistogramShape
        /\ IF Eq(DataMin, DataMax)
           THEN /\ Eq(analysis.bins[1], Num(2 * DataMin.n - DataMin.d, 2 * DataMin.d))
                /\ Eq(analysis.bins[21], Num(2 * DataMax.n + DataMax.d, 2 * DataMax.d))
           ELSE /\ Eq(analysis.bins[1], DataMin)
                /\ Eq(analysis.bins[21], DataMax)

\* a ratio map of two different values: the first and the last bin are both filled
C8_Witness ==
    /\ Analyzed
    /\ Less(DataMin, DataMax)
    /\ analysis.hist[1] > 0
    /\ analysis.hist[20] > 0

\* ---- C9 ----
\* C9: when the division raises, analyze does not fail: the ratio map is all zero,
\* of the frame's shape, and the histogram is computed from it.
C9_FallbackCompletes ==
    analysis.fell_back =>
        /\ analysis.exc = "none"
        /\ Len(analysis.fvfm) = Len(analysis.fmax)
        /\ \A i \in DOMAIN analysis.fvfm : analysis.fvfm[i] = Zero
        /\ Len(analysis.hist) = 20

\* ---- C10 ----
RECURSIVE PairsFrom(_, _)
PairsFrom(list, k) ==
    IF k > Len(list) THEN <<>>
    ELSE (IF Decodes(list[k])
          THEN << [path |-> [kind |-> "png", src |-> list[k].name], key |-> "flirIrCamera"],
                  [path |-> [kind |-> "tif", src |-> list[k].name], key |-> "flirIrCamera"] >>
          ELSE <<>>) \o PairsFrom(list, k + 1)
ExpectedPairs == PairsFrom(FileList, 1)
Aggregates ==
    << [path |-> [kind |-> "combined_hist.png", src |-> NoEnding], key |-> "flirIrCamera"],
       [path |-> [kind |-> "combined_pseudocolored.png", src |-> NoEnding],
        key |-> "flirIrCamera"] >>
LoopRan == result.kind # "none" /\ ReachesLoop /\ ~SensorFolderIn
SkippedFirst ==
    /\ FileList # <<>>
    /\ IsSensor(FileList[1])
    /\ ~FileList[1].isdir
    /\ ~Decodes(FileList[1])

\* C10 as stated: a sensor file that cannot be reshaped is skipped and the later
\* files are still handled; each decoded file adds its PNG entry then its GeoTIFF
\* entry and registers its frame index; on success the file list is these pairs in
\* input order, then the histogram entry, then the pseudocolor entry.
C10_PairsThenAggregates ==
    LoopRan =>
        /\ file_md = ExpectedPairs
        /\ DOMAIN png_frames = DecodedFrames
        /\ (Returned /\ result.code = 0) => result.file = ExpectedPairs \o Aggregates

\* C10 as amended: the two aggregate entries follow the pairs when at least one entry
\* of the file list has a sensor ending; with none, the successful result's file
\* list is empty.
C10_PairsThenAggregatesIfAnySensorFile ==
    LoopRan =>
        /\ file_md = ExpectedPairs
        /\ DOMAIN png_frames = DecodedFrames
        /\ (Returned /\ result.code = 0) =>
              result.file = IF SensorEntries # {} THEN ExpectedPairs \o Aggregates
                                                  ELSE <<>>

\* a successful run whose first file was skipped for its size
C10_Witness ==
    /\ Returned
    /\ result.code = 0
    /\ SkippedFirst
    /\ Len(result.file) = 2 * 101 + 2

====
